---- MODULE Spec2Model ----
\* Time-value-of-money policies (CalculationPolicies.hpp) called through the
\* Calculator<Policy> wrapper (Calculator.hpp).
\*
\* A double is modelled as a binary floating-point number m * 2^e whose
\* significand holds Prec bits and whose operations round to nearest, ties to
\* even, as IEEE-754 arithmetic does; the exponent range is not limited, so
\* overflow, underflow, infinities and NaN inputs are outside the model.
EXTENDS Integers, Sequences, FiniteSets

\* ------------------------------------------------------------------ bounds
Prec == 4          \* significand bits of the modelled double (53 in the build)
MaxLen == 3        \* longest cash-flow vector a caller passes
MaxPeriods == 3    \* largest period count a caller passes
MaxOut == 4        \* a caller starts a call only while std::cout holds fewer lines
NThreads == 2      \* threads that can hold a Calculator

Threads == 1..NThreads

\* ------------------------------------------------------- double arithmetic
F(m, e) == [m |-> m, e |-> e]

Zero == F(0, 0)
One == F(1, 0)
MinusOne == F(-1, 0)
NaN == [m |-> 0, e |-> 1]

Abs(x) == IF x < 0 THEN -x ELSE x
Min(a, b) == IF a <= b THEN a ELSE b

\* the unique representation of m * 2^e: m odd, or zero
RECURSIVE Canon(_, _)
Canon(m, e) ==
  IF m = 0 THEN Zero
  ELSE IF m % 2 = 0 THEN Canon(m \div 2, e + 1)
  ELSE F(m, e)

\* scale a/q * 2^e until 2^(Prec-1) <= a/q < 2^Prec
RECURSIVE Norm(_, _, _)
Norm(a, q, e) ==
  IF a >= (2^Prec) * q THEN Norm(a, 2 * q, e + 1)
  ELSE IF a < (2^(Prec - 1)) * q THEN Norm(2 * a, q, e - 1)
  ELSE <<a, q, e>>

\* (p / q) * 2^e rounded to Prec significant bits, nearest, ties to even
Round(p, q, e) ==
  IF p = 0 THEN Zero
  ELSE LET n == Norm(Abs(p), q, e)
           m0 == n[1] \div n[2]
           r == n[1] % n[2]
           up == (2 * r > n[2]) \/ (2 * r = n[2] /\ m0 % 2 = 1)
           m == IF up THEN m0 + 1 ELSE m0
       IN Canon(IF p < 0 THEN -m ELSE m, n[3])

FAdd(x, y) ==
  LET e == Min(x.e, y.e)
  IN Round(x.m * 2^(x.e - e) + y.m * 2^(y.e - e), 1, e)

FSub(x, y) == FAdd(x, F(-y.m, y.e))

FMul(x, y) == Round(x.m * y.m, 1, x.e + y.e)

FDiv(x, y) ==
  IF y.m = 0 THEN NaN
  ELSE Round(IF y.m < 0 THEN -x.m ELSE x.m, Abs(y.m), x.e - y.e)

\* m^k on integers, with m^0 = 1 as pow(x, 0.0) = 1.0 for every x
RECURSIVE IPow(_, _)
IPow(m, k) == IF k = 0 THEN 1 ELSE m * IPow(m, k - 1)

\* std::pow(x, static_cast<double>(k)) for an integer k, correctly rounded
FPow(x, k) ==
  IF k >= 0 THEN Round(IPow(x.m, k), 1, x.e * k)
  ELSE IF x.m = 0 THEN NaN
  ELSE LET d == IPow(x.m, -k)
       IN Round(IF d < 0 THEN -1 ELSE 1, Abs(d), x.e * k)

\* x <= y and x < y on doubles
FLe(x, y) ==
  LET e == Min(x.e, y.e)
  IN x.m * 2^(x.e - e) <= y.m * 2^(y.e - e)

FLt(x, y) == ~FLe(y, x)

\* static_cast<double>(n)
ToDouble(n) == Round(n, 1, 0)


\* -------------------------------------------------------- callers' inputs
Rates == {F(-3, -1), MinusOne, F(-15, -4), Zero, F(9, -6), F(1, -2)}
Flows == {F(-3, 0), Zero, F(5, 0), F(7, -2)}
Principals == {F(-5, 0), Zero, F(5, 0), F(13, 2)}
PeriodCounts == -1..MaxPeriods
CashFlowSeries == UNION {[1..n -> Flows] : n \in 0..MaxLen}

\* ------------------------------------------------------------------ state
VARIABLES
  live,         \* the threads that run
  pc,           \* pc[th]: where thread th is
  op,           \* op[th]: the policy of the Calculator thread th calls
  args,         \* args[th]: the arguments of the call in progress
  local,        \* local[th]: the locals of Policy::calculate
  ret,          \* ret[th]: what Policy::calculate returned or threw
  outcome,      \* outcome[th]: what the caller of Calculator::calculate got
  arith,        \* arith[th]: floating-point operations done by the call
  emitted,      \* emitted[th]: lines the call wrote to std::cout
  invocations,  \* invocations[th]: entries into Policy::calculate by the call
  cout,         \* std::cout, shared by all threads
  caller        \* caller[th]: the locals of the test body that makes the calls

vars == <<live, pc, op, args, local, ret, outcome, arith, emitted,
          invocations, cout, caller>>

None == [kind |-> "none"]
Value(v) == [kind |-> "value", value |-> v]
Error(what) == [kind |-> "error", what |-> what]

Ok == "ok"

Line(th, text) == [by |-> th, text |-> text]

\* a caller that keeps nothing between its calls
NoTest == [test |-> "none"]

\* no call made yet; the test runner and main make their calls on one thread
Init ==
  /\ live = {1}
  /\ pc = [th \in Threads |-> "idle"]
  /\ op = [th \in Threads |-> "none"]
  /\ args = [th \in Threads |-> <<>>]
  /\ local = [th \in Threads |-> <<>>]
  /\ ret = [th \in Threads |-> None]
  /\ outcome = [th \in Threads |-> None]
  /\ arith = [th \in Threads |-> 0]
  /\ emitted = [th \in Threads |-> 0]
  /\ invocations = [th \in Threads |-> 0]
  /\ cout = <<>>
  /\ caller = [th \in Threads |-> NoTest]

\* ------------------------------------------------- Calculator<Policy>, entry
\* the wrapper forwards its arguments to Policy::calculate
Enter(th, policy, a) ==
  /\ th \in live
  /\ pc[th] = "idle"
  /\ pc' = [pc EXCEPT ![th] = "validate"]
  /\ op' = [op EXCEPT ![th] = policy]
  /\ args' = [args EXCEPT ![th] = a]
  /\ local' = [local EXCEPT ![th] = <<>>]
  /\ ret' = [ret EXCEPT ![th] = None]
  /\ outcome' = [outcome EXCEPT ![th] = None]
  /\ arith' = [arith EXCEPT ![th] = 0]
  /\ emitted' = [emitted EXCEPT ![th] = 0]
  /\ invocations' = [invocations EXCEPT ![th] = 1]
  /\ UNCHANGED <<live, cout>>

\* a caller with no test in hand makes any one call, while std::cout holds
\* fewer than MaxOut lines
CalculatePV(th) ==
  /\ Len(cout) < MaxOut
  /\ caller[th].test = "none"
  /\ \E r \in Rates : \E cfs \in CashFlowSeries :
       Enter(th, "PresentValuePolicy",
             [discount_rate |-> r, cash_flows |-> cfs])
  /\ UNCHANGED caller

CalculateFV(th) ==
  /\ Len(cout) < MaxOut
  /\ caller[th].test = "none"
  /\ \E p \in Principals : \E r \in Rates : \E n \in PeriodCounts :
       Enter(th, "FutureValuePolicy",
             [principal |-> p, interest_rate |-> r, periods |-> n])
  /\ UNCHANGED caller

CalculateIR(th) ==
  /\ Len(cout) < MaxOut
  /\ caller[th].test = "none"
  /\ \E r \in Rates : \E n \in PeriodCounts :
       Enter(th, "InterestRateConversionPolicy",
             [nominal_rate |-> r, compounding_periods |-> n])
  /\ UNCHANGED caller

\* a thrown std::invalid_argument leaves Policy::calculate at once
Throw(th, what) ==
  /\ pc' = [pc EXCEPT ![th] = "thrown"]
  /\ ret' = [ret EXCEPT ![th] = Error(what)]
  /\ UNCHANGED <<live, caller, op, args, local, outcome, arith, emitted,
                 invocations, cout>>

\* statements of the call that each write one line to std::cout
Emit(th, texts) ==
  /\ cout' = cout \o [i \in 1..Len(texts) |-> Line(th, texts[i])]
  /\ emitted' = [emitted EXCEPT ![th] = @ + Len(texts)]


\* ------------------------------------------- PresentValuePolicy::calculate
\* the rate is looked at before the vector
PVCheck_RateFirst(discount_rate, cash_flows) ==
  IF FLe(discount_rate, MinusOne)
  THEN "Discount rate must be greater than -1"
  ELSE IF Len(cash_flows) = 0 THEN "Cash flows vector cannot be empty"
  ELSE Ok

\* `<` written for `<=`: the rate -1 gets through
PVCheck_StrictRate(discount_rate, cash_flows) ==
  IF Len(cash_flows) = 0 THEN "Cash flows vector cannot be empty"
  ELSE IF FLt(discount_rate, MinusOne)
       THEN "Discount rate must be greater than -1"
  ELSE Ok

PVCheck(discount_rate, cash_flows) ==
  IF Len(cash_flows) = 0 THEN "Cash flows vector cannot be empty"
  ELSE IF FLe(discount_rate, MinusOne)
       THEN "Discount rate must be greater than -1"
  ELSE Ok

\* the header line is written before the checks are made
PVValidate_PrintFirst(th) ==
  /\ th \in live
  /\ pc[th] = "validate"
  /\ op[th] = "PresentValuePolicy"
  /\ Emit(th, <<"pv.header">>)
  /\ LET what == PVCheck(args[th].discount_rate, args[th].cash_flows)
     IN IF what # Ok
        THEN /\ pc' = [pc EXCEPT ![th] = "thrown"]
             /\ ret' = [ret EXCEPT ![th] = Error(what)]
             /\ UNCHANGED local
        ELSE /\ local' = [local EXCEPT ![th] = [t |-> 0, present_value |-> Zero]]
             /\ pc' = [pc EXCEPT ![th] = "pv_loop"]
             /\ UNCHANGED ret
  /\ UNCHANGED <<live, caller, op, args, outcome, arith, invocations>>

\* the running total starts at 1.0
PVValidate_StartAtOne(th) ==
  /\ th \in live
  /\ pc[th] = "validate"
  /\ op[th] = "PresentValuePolicy"
  /\ LET what == PVCheck(args[th].discount_rate, args[th].cash_flows)
     IN IF what # Ok
        THEN Throw(th, what)
        ELSE /\ Emit(th, <<"pv.header">>)
             /\ local' = [local EXCEPT ![th] = [t |-> 0, present_value |-> One]]
             /\ pc' = [pc EXCEPT ![th] = "pv_loop"]
             /\ UNCHANGED <<live, caller, op, args, ret, outcome, arith,
                            invocations>>

\* the two checks, then the header line and the loop's initial values
PVValidate(th) ==
  /\ th \in live
  /\ pc[th] = "validate"
  /\ op[th] = "PresentValuePolicy"
  /\ LET what == PVCheck(args[th].discount_rate, args[th].cash_flows)
     IN IF what # Ok
        THEN Throw(th, what)
        ELSE /\ Emit(th, <<"pv.header">>)
             /\ local' = [local EXCEPT ![th] = [t |-> 0, present_value |-> Zero]]
             /\ pc' = [pc EXCEPT ![th] = "pv_loop"]
             /\ UNCHANGED <<live, caller, op, args, ret, outcome, arith, invocations>>

\* the exponent is the zero-based index itself
DiscountFactor_ZeroBased(discount_rate, t) == FPow(FAdd(One, discount_rate), t)

\* std::pow(1.0 + discount_rate, static_cast<double>(t + 1)), t zero-based
DiscountFactor(discount_rate, t) == FPow(FAdd(One, discount_rate), t + 1)

\* one iteration of the loop over cash_flows; cash_flows[t] of the source is
\* element t + 1 of the sequence. The period line divides a second time.
PVLoop(th) ==
  /\ th \in live
  /\ pc[th] = "pv_loop"
  /\ local[th].t < Len(args[th].cash_flows)
  /\ LET t == local[th].t
         discount_factor == DiscountFactor(args[th].discount_rate, t)
         term == FDiv(args[th].cash_flows[t + 1], discount_factor)
     IN /\ local' = [local EXCEPT ![th] =
                       [t |-> t + 1,
                        present_value |-> FAdd(local[th].present_value, term)]]
        /\ arith' = [arith EXCEPT ![th] = @ + 5]
        /\ Emit(th, <<"pv.period">>)
  /\ UNCHANGED <<live, caller, pc, op, args, ret, outcome, invocations>>

\* the loop is over: the total line, then return present_value
PVReturn(th) ==
  /\ th \in live
  /\ pc[th] = "pv_loop"
  /\ local[th].t >= Len(args[th].cash_flows)
  /\ Emit(th, <<"pv.total">>)
  /\ ret' = [ret EXCEPT ![th] = Value(local[th].present_value)]
  /\ pc' = [pc EXCEPT ![th] = "returned"]
  /\ UNCHANGED <<live, caller, op, args, local, outcome, arith, invocations>>

\* -------------------------------------------- FutureValuePolicy::calculate
\* `<=` written for `<`: a principal of zero is turned away
FVCheck_PositivePrincipal(principal, interest_rate, periods) ==
  IF FLe(principal, Zero) THEN "Principal must be non-negative"
  ELSE IF periods < 0 THEN "Periods must be non-negative"
  ELSE IF FLe(interest_rate, MinusOne)
       THEN "Interest rate must be greater than -1"
  ELSE Ok

FVCheck(principal, interest_rate, periods) ==
  IF FLt(principal, Zero) THEN "Principal must be non-negative"
  ELSE IF periods < 0 THEN "Periods must be non-negative"
  ELSE IF FLe(interest_rate, MinusOne)
       THEN "Interest rate must be greater than -1"
  ELSE Ok

FVValidate(th) ==
  /\ th \in live
  /\ pc[th] = "validate"
  /\ op[th] = "FutureValuePolicy"
  /\ LET what == FVCheck(args[th].principal, args[th].interest_rate,
                         args[th].periods)
     IN IF what # Ok
        THEN Throw(th, what)
        ELSE /\ Emit(th, <<"fv.header">>)
             /\ pc' = [pc EXCEPT ![th] = "fv_compute"]
             /\ UNCHANGED <<live, caller, op, args, local, ret, outcome, arith,
                            invocations>>

\* simple interest in place of compounding
FutureValue_Simple(principal, interest_rate, periods) ==
  FMul(principal, FAdd(One, FMul(interest_rate, ToDouble(periods))))

\* principal * std::pow(1.0 + interest_rate, static_cast<double>(periods))
FutureValue(principal, interest_rate, periods) ==
  FMul(principal, FPow(FAdd(One, interest_rate), periods))

\* future_value, the growth-factor line (a second std::pow), the value line
FVCompute(th) ==
  /\ th \in live
  /\ pc[th] = "fv_compute"
  /\ LET future_value == FutureValue(args[th].principal,
                                     args[th].interest_rate, args[th].periods)
     IN /\ local' = [local EXCEPT ![th] = [future_value |-> future_value]]
        /\ ret' = [ret EXCEPT ![th] = Value(future_value)]
  /\ arith' = [arith EXCEPT ![th] = @ + 5]
  /\ Emit(th, <<"fv.growth", "fv.value">>)
  /\ pc' = [pc EXCEPT ![th] = "returned"]
  /\ UNCHANGED <<live, caller, op, args, outcome, invocations>>

\* --------------------------------- InterestRateConversionPolicy::calculate
\* `<` written for `<=`: a count of zero gets through
IRCheck_NegativeOnly(nominal_rate, compounding_periods) ==
  IF compounding_periods < 0 THEN "Compounding periods must be positive"
  ELSE IF FLe(nominal_rate, MinusOne)
       THEN "Nominal rate must be greater than -1"
  ELSE Ok

IRCheck(nominal_rate, compounding_periods) ==
  IF compounding_periods <= 0 THEN "Compounding periods must be positive"
  ELSE IF FLe(nominal_rate, MinusOne)
       THEN "Nominal rate must be greater than -1"
  ELSE Ok

IRValidate(th) ==
  /\ th \in live
  /\ pc[th] = "validate"
  /\ op[th] = "InterestRateConversionPolicy"
  /\ LET what == IRCheck(args[th].nominal_rate, args[th].compounding_periods)
     IN IF what # Ok
        THEN Throw(th, what)
        ELSE /\ Emit(th, <<"ir.header">>)
             /\ pc' = [pc EXCEPT ![th] = "ir_compute"]
             /\ UNCHANGED <<live, caller, op, args, local, ret, outcome, arith,
                            invocations>>

\* nominal_rate / static_cast<double>(compounding_periods)
RatePerPeriod(nominal_rate, compounding_periods) ==
  FDiv(nominal_rate, ToDouble(compounding_periods))

\* the nominal rate compounded whole in every period
EffectiveRate_Undivided(nominal_rate, compounding_periods) ==
  FSub(FPow(FAdd(One, nominal_rate), compounding_periods), One)

\* the power is taken of the rate per period, not of 1.0 plus it
EffectiveRate_NoOne(nominal_rate, compounding_periods) ==
  FSub(FPow(RatePerPeriod(nominal_rate, compounding_periods),
            compounding_periods),
       One)

\* std::pow(1.0 + rate_per_period, static_cast<double>(n)) - 1.0
EffectiveRate(nominal_rate, compounding_periods) ==
  FSub(FPow(FAdd(One, RatePerPeriod(nominal_rate, compounding_periods)),
            compounding_periods),
       One)

IRCompute(th) ==
  /\ th \in live
  /\ pc[th] = "ir_compute"
  /\ LET rate_per_period == RatePerPeriod(args[th].nominal_rate,
                                          args[th].compounding_periods)
         effective_rate == EffectiveRate(args[th].nominal_rate,
                                         args[th].compounding_periods)
     IN /\ local' = [local EXCEPT ![th] =
                       [rate_per_period |-> rate_per_period,
                        effective_rate |-> effective_rate]]
        /\ ret' = [ret EXCEPT ![th] = Value(effective_rate)]
  /\ arith' = [arith EXCEPT ![th] = @ + 4]
  /\ Emit(th, <<"ir.rate_per_period", "ir.effective">>)
  /\ pc' = [pc EXCEPT ![th] = "returned"]
  /\ UNCHANGED <<live, caller, op, args, outcome, invocations>>

\* ------------------------------------------------ Calculator<Policy>, exit
\* `return CalculationPolicy::calculate(...)`: the value is handed on, and an
\* exception passes through, there being no try block
CalculatorReturn(th) ==
  /\ th \in live
  /\ pc[th] \in {"returned", "thrown"}
  /\ outcome' = [outcome EXCEPT ![th] = ret[th]]
  /\ pc' = [pc EXCEPT ![th] = "idle"]
  /\ UNCHANGED <<live, caller, op, args, local, ret, arith, emitted, invocations,
                 cout>>

Next ==
  \E th \in Threads :
    \/ CalculatePV(th)
    \/ CalculateFV(th)
    \/ CalculateIR(th)
    \/ PVValidate(th)
    \/ PVLoop(th)
    \/ PVReturn(th)
    \/ FVValidate(th)
    \/ FVCompute(th)
    \/ IRValidate(th)
    \/ IRCompute(th)
    \/ CalculatorReturn(th)

Spec == Init /\ [][Next]_vars


\* ------------------------------------------------------------ properties
\* thread th has made a call and got its outcome back from the wrapper
Done(th) == pc[th] = "idle" /\ outcome[th].kind # "none"

DonePV(th) == Done(th) /\ op[th] = "PresentValuePolicy"
DoneFV(th) == Done(th) /\ op[th] = "FutureValuePolicy"
DoneIR(th) == Done(th) /\ op[th] = "InterestRateConversionPolicy"

\* cash_flows[0]/(1+r)^1 + ... + cash_flows[k-1]/(1+r)^k, summed in index
\* order in double arithmetic; element i of the sequence has zero-based
\* index i - 1
RECURSIVE DiscountedSum(_, _, _)
DiscountedSum(r, cfs, k) ==
  IF k = 0 THEN Zero
  ELSE FAdd(DiscountedSum(r, cfs, k - 1),
            FDiv(cfs[k], FPow(FAdd(One, r), k)))

\* C1: for every discount_rate > -1 and non-empty cash-flow vector, present
\* value returns the sum over zero-based i of cash_flows[i] / (1 + r)^(i+1);
\* a single flow CF gives CF / (1 + r).
C1_PresentValueFormula ==
  \A th \in Threads :
    (/\ DonePV(th)
     /\ FLt(MinusOne, args[th].discount_rate)
     /\ Len(args[th].cash_flows) > 0)
    => LET r == args[th].discount_rate
           cfs == args[th].cash_flows
       IN /\ outcome[th].kind = "value"
          /\ outcome[th].value = DiscountedSum(r, cfs, Len(cfs))
          /\ Len(cfs) = 1 => outcome[th].value = FDiv(cfs[1], FAdd(One, r))

\* a three-flow series with a negative and a zero flow, discounted at a
\* negative rate above -1, has been valued
C1_Witness ==
  \E th \in Threads :
    /\ DonePV(th)
    /\ args[th].discount_rate = F(-15, -4)
    /\ args[th].cash_flows = <<F(-3, 0), Zero, F(7, -2)>>
    /\ outcome[th].kind = "value"

\* C2: for principal >= 0, interest_rate > -1 and periods >= 0, future value
\* returns principal * (1 + interest_rate)^periods, and with periods = 0 it
\* returns the principal itself.
C2_FutureValueFormula ==
  \A th \in Threads :
    (/\ DoneFV(th)
     /\ FLe(Zero, args[th].principal)
     /\ FLt(MinusOne, args[th].interest_rate)
     /\ args[th].periods >= 0)
    => /\ outcome[th].kind = "value"
       /\ outcome[th].value =
            FMul(args[th].principal,
                 FPow(FAdd(One, args[th].interest_rate), args[th].periods))
       /\ args[th].periods = 0 => outcome[th].value = args[th].principal

\* a principal has been compounded over three periods at a rate whose
\* growth factor needs rounding
C2_Witness ==
  \E th \in Threads :
    /\ DoneFV(th)
    /\ args[th].principal = F(13, 2)
    /\ args[th].interest_rate = F(9, -6)
    /\ args[th].periods = 3
    /\ outcome[th].kind = "value"

\* C3: for nominal_rate > -1 and compounding_periods n > 0, rate conversion
\* returns (1 + nominal_rate / n)^n - 1.
C3_EffectiveRateFormula ==
  \A th \in Threads :
    (/\ DoneIR(th)
     /\ FLt(MinusOne, args[th].nominal_rate)
     /\ args[th].compounding_periods > 0)
    => LET r == args[th].nominal_rate
           n == args[th].compounding_periods
       IN /\ outcome[th].kind = "value"
          /\ outcome[th].value =
               FSub(FPow(FAdd(One, FDiv(r, ToDouble(n))), n), One)

\* a rate has been converted with three compounding periods
C3_Witness ==
  \E th \in Threads :
    /\ DoneIR(th)
    /\ args[th].nominal_rate = F(1, -2)
    /\ args[th].compounding_periods = 3
    /\ outcome[th].kind = "value"

\* C4: with compounding_periods = 1 and nominal_rate > -1, rate conversion
\* returns nominal_rate itself, bit for bit.
C4_AnnualReturnsNominal ==
  \A th \in Threads :
    (/\ DoneIR(th)
     /\ args[th].compounding_periods = 1
     /\ FLt(MinusOne, args[th].nominal_rate))
    => /\ outcome[th].kind = "value"
       /\ outcome[th].value = args[th].nominal_rate

\* C5 as claimed: with discount_rate <= -1 and an empty vector, the failure
\* reported is the rate failure.
C5_RateFailureReported ==
  \A th \in Threads :
    (/\ DonePV(th)
     /\ FLe(args[th].discount_rate, MinusOne)
     /\ Len(args[th].cash_flows) = 0)
    => outcome[th] = Error("Discount rate must be greater than -1")

\* C5: with discount_rate <= -1 and an empty vector, the failure reported is
\* the emptiness failure: the emptiness check comes before the rate check.
C5_EmptinessFailureReported ==
  \A th \in Threads :
    (/\ DonePV(th)
     /\ FLe(args[th].discount_rate, MinusOne)
     /\ Len(args[th].cash_flows) = 0)
    => outcome[th] = Error("Cash flows vector cannot be empty")

\* a call with the rate -1.5 and no cash flows has failed
C5_Witness ==
  \E th \in Threads :
    /\ DonePV(th)
    /\ args[th].discount_rate = F(-3, -1)
    /\ Len(args[th].cash_flows) = 0
    /\ outcome[th].kind = "error"


\* Policy::calculate did not get past its checks: no local was initialised
NoLocals(th) == DOMAIN local[th] = {}

\* C6: present value fails with an invalid-input error if and only if
\* discount_rate <= -1 or the vector is empty; the rate -1 is rejected, every
\* other call yields a result, and no call yields both.
C6_PresentValueRejects ==
  \A th \in Threads :
    DonePV(th)
    => /\ outcome[th].kind \in {"error", "value"}
       /\ outcome[th].kind = "error"
            <=> (\/ FLe(args[th].discount_rate, MinusOne)
                 \/ Len(args[th].cash_flows) = 0)
       /\ outcome[th].kind = "error" <=> NoLocals(th)

\* the rate exactly -1 with a non-empty vector has been rejected
C6_Witness ==
  \E th \in Threads :
    /\ DonePV(th)
    /\ args[th].discount_rate = MinusOne
    /\ Len(args[th].cash_flows) = 2
    /\ outcome[th].kind = "error"

\* C7: future value fails with an invalid-input error if and only if
\* principal < 0 or interest_rate <= -1 or periods < 0; principal = 0 and
\* periods = 0 are accepted and the rate -1 is rejected.
C7_FutureValueRejects ==
  \A th \in Threads :
    DoneFV(th)
    => /\ outcome[th].kind \in {"error", "value"}
       /\ outcome[th].kind = "error"
            <=> (\/ FLt(args[th].principal, Zero)
                 \/ FLe(args[th].interest_rate, MinusOne)
                 \/ args[th].periods < 0)

\* a call whose only fault is a negative period count has been rejected
C7_Witness ==
  \E th \in Threads :
    /\ DoneFV(th)
    /\ args[th].principal = Zero
    /\ args[th].interest_rate = F(1, -2)
    /\ args[th].periods = -1
    /\ outcome[th].kind = "error"

\* C8: rate conversion fails with an invalid-input error if and only if
\* compounding_periods <= 0 or nominal_rate <= -1; every other call yields a
\* result.
C8_RateConversionRejects ==
  \A th \in Threads :
    DoneIR(th)
    => /\ outcome[th].kind \in {"error", "value"}
       /\ outcome[th].kind = "error"
            <=> (\/ args[th].compounding_periods <= 0
                 \/ FLe(args[th].nominal_rate, MinusOne))

\* a valid rate with zero compounding periods has been rejected
C8_Witness ==
  \E th \in Threads :
    /\ DoneIR(th)
    /\ args[th].nominal_rate = F(9, -6)
    /\ args[th].compounding_periods = 0
    /\ outcome[th].kind = "error"

\* the precondition of the call thread th is making, by its policy
Rejected(th) ==
  CASE op[th] = "PresentValuePolicy" ->
         FLe(args[th].discount_rate, MinusOne) \/ Len(args[th].cash_flows) = 0
    [] op[th] = "FutureValuePolicy" ->
         \/ FLt(args[th].principal, Zero)
         \/ FLe(args[th].interest_rate, MinusOne)
         \/ args[th].periods < 0
    [] op[th] = "InterestRateConversionPolicy" ->
         \/ args[th].compounding_periods <= 0
         \/ FLe(args[th].nominal_rate, MinusOne)
    [] OTHER -> FALSE

\* C9: in all three calculations the checks come before the first arithmetic
\* step and before any output: a rejected call does no arithmetic, writes
\* nothing, sets no result, enters the policy once, and its error reaches the
\* caller of the wrapper as thrown.
C9_ChecksComeFirst ==
  \A th \in Threads :
    /\ (arith[th] > 0 \/ emitted[th] > 0 \/ ret[th].kind = "value")
         => ~Rejected(th)
    /\ (pc[th] # "idle" /\ pc[th] # "validate" /\ Rejected(th))
         => pc[th] = "thrown"
    /\ pc[th] = "thrown"
         => /\ ret[th].kind = "error"
            /\ arith[th] = 0 /\ emitted[th] = 0 /\ NoLocals(th)
    /\ (Done(th) /\ Rejected(th))
         => /\ outcome[th].kind = "error"
            /\ outcome[th] = ret[th]
            /\ arith[th] = 0 /\ emitted[th] = 0 /\ NoLocals(th)
            /\ invocations[th] = 1

\* a rejected future-value call has handed its error to the caller after
\* std::cout had already received lines from an earlier call
C9_Witness ==
  \E th \in Threads :
    /\ DoneFV(th)
    /\ Rejected(th)
    /\ outcome[th] = Error("Periods must be non-negative")
    /\ Len(cout) > 0

\* C10: a call writes no text, on the success path as on the failure path.
C10_NothingEmitted ==
  \A th \in Threads : Done(th) => emitted[th] = 0


\* ------------------------------------------------- calls from two threads
\* two threads, each with a Calculator of its own, call with no lock between
\* them; the arguments come from small sets that hold a rejected and an
\* accepted call of every policy
ThreadRates == {MinusOne, F(1, -2)}
ThreadSeries == {<<>>, <<F(5, 0)>>, <<F(5, 0), F(-3, 0)>>}
ThreadPeriods == {-1, 2}
ThreadCompoundings == {0, 2}

InitConc ==
  /\ live = {1, 2}
  /\ pc = [th \in Threads |-> "idle"]
  /\ op = [th \in Threads |-> "none"]
  /\ args = [th \in Threads |-> <<>>]
  /\ local = [th \in Threads |-> <<>>]
  /\ ret = [th \in Threads |-> None]
  /\ outcome = [th \in Threads |-> None]
  /\ arith = [th \in Threads |-> 0]
  /\ emitted = [th \in Threads |-> 0]
  /\ invocations = [th \in Threads |-> 0]
  /\ cout = <<>>
  /\ caller = [th \in Threads |-> NoTest]

ThreadCalculatePV(th) ==
  /\ Len(cout) < MaxOut
  /\ \E r \in ThreadRates : \E cfs \in ThreadSeries :
       Enter(th, "PresentValuePolicy",
             [discount_rate |-> r, cash_flows |-> cfs])
  /\ UNCHANGED caller

ThreadCalculateFV(th) ==
  /\ Len(cout) < MaxOut
  /\ \E r \in ThreadRates : \E n \in ThreadPeriods :
       Enter(th, "FutureValuePolicy",
             [principal |-> F(5, 0), interest_rate |-> r, periods |-> n])
  /\ UNCHANGED caller

ThreadCalculateIR(th) ==
  /\ Len(cout) < MaxOut
  /\ \E r \in ThreadRates : \E n \in ThreadCompoundings :
       Enter(th, "InterestRateConversionPolicy",
             [nominal_rate |-> r, compounding_periods |-> n])
  /\ UNCHANGED caller

NextConc ==
  \E th \in Threads :
    \/ ThreadCalculatePV(th)
    \/ ThreadCalculateFV(th)
    \/ ThreadCalculateIR(th)
    \/ PVValidate(th)
    \/ PVLoop(th)
    \/ PVReturn(th)
    \/ FVValidate(th)
    \/ FVCompute(th)
    \/ IRValidate(th)
    \/ IRCompute(th)
    \/ CalculatorReturn(th)

SpecConc == InitConc /\ [][NextConc]_vars

\* what the call thread th made gives when it runs alone: the policy's checks
\* and formula applied to the call's own arguments
SoloOutcome(th) ==
  CASE op[th] = "PresentValuePolicy" ->
         LET what == PVCheck(args[th].discount_rate, args[th].cash_flows)
         IN IF what # Ok THEN Error(what)
            ELSE Value(DiscountedSum(args[th].discount_rate,
                                     args[th].cash_flows,
                                     Len(args[th].cash_flows)))
    [] op[th] = "FutureValuePolicy" ->
         LET what == FVCheck(args[th].principal, args[th].interest_rate,
                             args[th].periods)
         IN IF what # Ok THEN Error(what)
            ELSE Value(FutureValue(args[th].principal,
                                   args[th].interest_rate, args[th].periods))
    [] op[th] = "InterestRateConversionPolicy" ->
         LET what == IRCheck(args[th].nominal_rate,
                             args[th].compounding_periods)
         IN IF what # Ok THEN Error(what)
            ELSE Value(EffectiveRate(args[th].nominal_rate,
                                     args[th].compounding_periods))
    [] OTHER -> None

\* every completed call has the outcome it has when run alone
OutcomesAreSolo ==
  \A th \in Threads : Done(th) => outcome[th] = SoloOutcome(th)

\* C11: under any interleaving of calls made from several threads with no
\* synchronisation, no step of a call changes state shared between the
\* threads, and every call ends with the outcome it has when run alone.
C11_CallsIndependent ==
  [][cout' = cout /\ OutcomesAreSolo']_vars

\* the part of C11 about outcomes, on its own: it holds in every interleaving
C11_OutcomeDependsOnArguments == OutcomesAreSolo

\* both threads have completed an accepted call and their lines alternate in
\* std::cout
C11_Interleaved ==
  /\ \A th \in {1, 2} : Done(th) /\ outcome[th].kind = "value"
  /\ \E i \in 1..(Len(cout) - 2) :
       cout[i].by # cout[i + 1].by /\ cout[i + 1].by # cout[i + 2].by


\* ------------------------------- IntegrationTest, the round trip (test body)
\* the accepted principals, and one whose round trip does not come back exact
ValidPrincipals == {p \in Principals : FLe(Zero, p)} \cup {F(7, 0)}
ValidRates == {r \in Rates : FLt(MinusOne, r)}

\* std::vector<double> cash_flows(n, 0.0)
Zeros(n) == [i \in 1..n |-> Zero]

\* double future = fv_calc.calculate(principal, rate, periods)
RoundTripFuture(th) ==
  /\ caller[th].test = "none"
  /\ \E p \in ValidPrincipals : \E r \in ValidRates : \E n \in 1..MaxPeriods :
       /\ Enter(th, "FutureValuePolicy",
                [principal |-> p, interest_rate |-> r, periods |-> n])
       /\ caller' = [caller EXCEPT ![th] =
                       [test |-> "RoundTrip", step |-> "future",
                        principal |-> p, rate |-> r, periods |-> n]]

\* periods - 1 zeros, then future pushed back, then
\* double present = pv_calc.calculate(rate, cash_flows)
RoundTripPresent(th) ==
  /\ caller[th].test = "RoundTrip"
  /\ caller[th].step = "future"
  /\ outcome[th].kind = "value"
  /\ Enter(th, "PresentValuePolicy",
           [discount_rate |-> caller[th].rate,
            cash_flows |-> Zeros(caller[th].periods - 1)
                             \o <<outcome[th].value>>])
  /\ caller' = [caller EXCEPT ![th] =
                  [test |-> "RoundTrip", step |-> "present",
                   principal |-> caller[th].principal,
                   rate |-> caller[th].rate,
                   periods |-> caller[th].periods,
                   future |-> outcome[th].value]]

NextRoundTrip ==
  \E th \in Threads :
    \/ RoundTripFuture(th)
    \/ RoundTripPresent(th)
    \/ FVValidate(th)
    \/ FVCompute(th)
    \/ PVValidate(th)
    \/ PVLoop(th)
    \/ PVReturn(th)
    \/ CalculatorReturn(th)

SpecRoundTrip == Init /\ [][NextRoundTrip]_vars

\* |x - p| <= 3 * 2^(-Prec) * |p|: x is p to within three units of relative
\* rounding error
Near(x, p) ==
  LET e == Min(x.e, p.e)
      xm == x.m * 2^(x.e - e)
      pm == p.m * 2^(p.e - e)
  IN (2^Prec) * Abs(xm - pm) <= 3 * Abs(pm)

\* thread th has both calls of the round trip behind it
RoundTripDone(th) ==
  /\ caller[th].test = "RoundTrip"
  /\ caller[th].step = "present"
  /\ DonePV(th)

Scalars == {F(-1, 1), Zero, F(1, -1), F(3, 0)}
NonEmptySeries == {cfs \in CashFlowSeries : Len(cfs) > 0}

\* every flow multiplied by k, in double arithmetic
Scaled(k, cfs) == [i \in 1..Len(cfs) |-> FMul(k, cfs[i])]

\* double base = pv_calc.calculate(rate, flows)
ScaleBase(th) ==
  /\ caller[th].test = "none"
  /\ \E r \in ValidRates : \E cfs \in NonEmptySeries : \E k \in Scalars :
       /\ Enter(th, "PresentValuePolicy",
                [discount_rate |-> r, cash_flows |-> cfs])
       /\ caller' = [caller EXCEPT ![th] =
                       [test |-> "Scale", step |-> "base",
                        k |-> k, rate |-> r, flows |-> cfs]]

\* double scaled = pv_calc.calculate(rate, k * flows)
ScaleScaled(th) ==
  /\ caller[th].test = "Scale"
  /\ caller[th].step = "base"
  /\ outcome[th].kind = "value"
  /\ Enter(th, "PresentValuePolicy",
           [discount_rate |-> caller[th].rate,
            cash_flows |-> Scaled(caller[th].k, caller[th].flows)])
  /\ caller' = [caller EXCEPT ![th] =
                  [test |-> "Scale", step |-> "scaled",
                   k |-> caller[th].k, rate |-> caller[th].rate,
                   flows |-> caller[th].flows, base |-> outcome[th].value]]

NextScale ==
  \E th \in Threads :
    \/ ScaleBase(th)
    \/ ScaleScaled(th)
    \/ PVValidate(th)
    \/ PVLoop(th)
    \/ PVReturn(th)
    \/ CalculatorReturn(th)

SpecScale == Init /\ [][NextScale]_vars

\* thread th has valued the flows and the scaled flows
ScaleDone(th) ==
  /\ caller[th].test = "Scale"
  /\ caller[th].step = "scaled"
  /\ DonePV(th)

\* k is zero or plus or minus a power of two: multiplying by it never rounds
PowerOfTwoOrZero(k) == Abs(k.m) <= 1

\* C13 as claimed: for every rate r > -1, non-empty series and scalar k, the
\* present value of the flows each multiplied by k equals k times the present
\* value of the flows.
C13_LinearForEveryScalar ==
  \A th \in Threads :
    ScaleDone(th)
    => /\ outcome[th].kind = "value"
       /\ outcome[th].value = FMul(caller[th].k, caller[th].base)

\* C13: for every rate r > -1, non-empty series and scalar k that is zero or
\* plus or minus a power of two, the present value of the flows each
\* multiplied by k equals k times the present value of the flows.
C13_LinearForPowersOfTwo ==
  \A th \in Threads :
    (ScaleDone(th) /\ PowerOfTwoOrZero(caller[th].k))
    => /\ outcome[th].kind = "value"
       /\ outcome[th].value = FMul(caller[th].k, caller[th].base)

\* three flows of mixed sign have been valued, then valued again scaled by -2,
\* and the value is not zero
C13_Witness ==
  \E th \in Threads :
    /\ ScaleDone(th)
    /\ caller[th].k = F(-1, 1)
    /\ caller[th].flows = <<F(5, 0), F(-3, 0), F(7, -2)>>
    /\ caller[th].rate = F(9, -6)
    /\ outcome[th].kind = "value"
    /\ outcome[th].value # Zero


\* ------------- the comparison of compounding frequencies (main, test body)
PositiveRates == {r \in Rates : FLt(Zero, r)}

\* double eff = ir_calculator.calculate(base_nominal, n), the first of two
\* frequencies n <= m
CompoundFirst(th) ==
  /\ caller[th].test = "none"
  /\ \E r \in PositiveRates : \E n \in 1..MaxPeriods : \E m \in n..MaxPeriods :
     \E p \in ValidPrincipals : \E y \in 1..MaxPeriods :
       /\ Enter(th, "InterestRateConversionPolicy",
                [nominal_rate |-> r, compounding_periods |-> n])
       /\ caller' = [caller EXCEPT ![th] =
                       [test |-> "Compound", step |-> "first",
                        nominal |-> r, n |-> n, m |-> m,
                        principal |-> p, years |-> y]]

\* the same rate at the higher frequency m
CompoundSecond(th) ==
  /\ caller[th].test = "Compound"
  /\ caller[th].step = "first"
  /\ outcome[th].kind = "value"
  /\ Enter(th, "InterestRateConversionPolicy",
           [nominal_rate |-> caller[th].nominal,
            compounding_periods |-> caller[th].m])
  /\ caller' = [caller EXCEPT ![th] =
                  [test |-> "Compound", step |-> "second",
                   nominal |-> caller[th].nominal,
                   n |-> caller[th].n, m |-> caller[th].m,
                   principal |-> caller[th].principal,
                   years |-> caller[th].years,
                   first |-> outcome[th].value]]

\* double fv_annual = fv_calc.calculate(principal, nominal, years)
CompoundAnnual(th) ==
  /\ caller[th].test = "Compound"
  /\ caller[th].step = "second"
  /\ outcome[th].kind = "value"
  /\ Enter(th, "FutureValuePolicy",
           [principal |-> caller[th].principal,
            interest_rate |-> caller[th].nominal,
            periods |-> caller[th].years])
  /\ caller' = [caller EXCEPT ![th] =
                  [test |-> "Compound", step |-> "annual",
                   nominal |-> caller[th].nominal,
                   n |-> caller[th].n, m |-> caller[th].m,
                   principal |-> caller[th].principal,
                   years |-> caller[th].years,
                   first |-> caller[th].first,
                   effective |-> outcome[th].value]]

\* double fv_monthly = fv_calc.calculate(principal, effective, years)
CompoundMonthly(th) ==
  /\ caller[th].test = "Compound"
  /\ caller[th].step = "annual"
  /\ outcome[th].kind = "value"
  /\ Enter(th, "FutureValuePolicy",
           [principal |-> caller[th].principal,
            interest_rate |-> caller[th].effective,
            periods |-> caller[th].years])
  /\ caller' = [caller EXCEPT ![th] =
                  [test |-> "Compound", step |-> "monthly",
                   nominal |-> caller[th].nominal,
                   n |-> caller[th].n, m |-> caller[th].m,
                   principal |-> caller[th].principal,
                   years |-> caller[th].years,
                   first |-> caller[th].first,
                   effective |-> caller[th].effective,
                   fv_annual |-> outcome[th].value]]

NextCompound ==
  \E th \in Threads :
    \/ CompoundFirst(th)
    \/ CompoundSecond(th)
    \/ CompoundAnnual(th)
    \/ CompoundMonthly(th)
    \/ IRValidate(th)
    \/ IRCompute(th)
    \/ FVValidate(th)
    \/ FVCompute(th)
    \/ CalculatorReturn(th)

SpecCompound == Init /\ [][NextCompound]_vars

\* thread th has the effective rates at both frequencies
RatesDone(th) ==
  /\ caller[th].test = "Compound"
  /\ caller[th].step = "second"
  /\ DoneIR(th)

\* thread th has both future values
FutureValuesDone(th) ==
  /\ caller[th].test = "Compound"
  /\ caller[th].step = "monthly"
  /\ DoneFV(th)

\* C14 as claimed: for r > 0 and 1 <= n <= m the effective rate at n is at
\* most the effective rate at m, compounding more than once a year never
\* yields less than the nominal rate, and future value at the effective rate
\* is at least future value at the nominal rate.
C14_MonotoneInPeriods ==
  \A th \in Threads :
    /\ RatesDone(th)
         => /\ outcome[th].kind = "value"
            /\ FLe(caller[th].first, outcome[th].value)
            /\ caller[th].m >= 2
                 => FLe(caller[th].nominal, outcome[th].value)
    /\ FutureValuesDone(th)
         => /\ outcome[th].kind = "value"
            /\ caller[th].m >= 2
                 => FLe(caller[th].fv_annual, outcome[th].value)

\* C14: for r > 0 and n >= 1 the effective rate is never negative, and future
\* value at the effective rate is at least the principal.
C14_NeverNegative ==
  \A th \in Threads :
    /\ RatesDone(th)
         => /\ outcome[th].kind = "value"
            /\ FLe(Zero, caller[th].first)
            /\ FLe(Zero, outcome[th].value)
    /\ FutureValuesDone(th)
         => /\ outcome[th].kind = "value"
            /\ FLe(Zero, caller[th].effective)
            /\ FLe(caller[th].principal, outcome[th].value)

\* the rate 1/4 compounded twice and three times, then a principal grown over
\* three years at the effective rate, which is above the nominal rate
C14_Witness ==
  \E th \in Threads :
    /\ FutureValuesDone(th)
    /\ caller[th].nominal = F(1, -2)
    /\ caller[th].n = 2
    /\ caller[th].m = 3
    /\ caller[th].years = 3
    /\ FLt(caller[th].nominal, caller[th].effective)
    /\ outcome[th].kind = "value"

====
